---- MODULE Spec2Model ----
(***************************************************************************)
(* State machine of jrsonnet-evaluator's `State`: the import/file cache    *)
(* (import_resolved, import_resolved_str, import_resolved_bin), the stack  *)
(* frames (push, push_val, push_description) and the RefCell borrows of    *)
(* the evaluation data.                                                    *)
(*                                                                         *)
(* The program is single threaded and re-entrant: the body of a frame and  *)
(* the evaluation of an imported file call back into the same State.  The  *)
(* model keeps the open calls in `stack`; every handler that runs a body   *)
(* is split at the body into an entry action and an exit action.           *)
(***************************************************************************)
EXTENDS Integers, Sequences, FiniteSets, TLC

(***************************************************************************)
(* Bounds of the model.                                                    *)
(***************************************************************************)
\* operations (entries and returns of calls) explored in one session
MaxSteps == 4
\* largest max_stack setting explored
MaxStackSetting == 1
\* the max_trace setting explored
MaxTraceSetting == 1
MaxArgs == 2
MaxParams == 2
MaxRawParams == 3
MaxFound == 2

(***************************************************************************)
(* Option<T>: None is the empty sequence, Some(x) the one-element sequence *)
(***************************************************************************)
None == <<>>
Some(x) == <<x>>
is_none(o) == o = <<>>
is_some(o) == o # <<>>
unwrap(o) == o[1]

(***************************************************************************)
(* Bytes and strings.  A byte is 0..255, a string is a sequence of Unicode *)
(* scalar values.  The model covers one- and two-byte UTF-8 sequences.     *)
(***************************************************************************)
IsContinuation(b) == b >= 128 /\ b <= 191
IsLead2(b) == b >= 194 /\ b <= 223

\* std::str::from_utf8 / IBytes::cast_str: None when the bytes are not UTF-8
RECURSIVE from_utf8(_)
from_utf8(bytes) ==
    IF bytes = <<>> THEN Some(<<>>)
    ELSE IF bytes[1] < 128
    THEN LET rest == from_utf8(Tail(bytes))
         IN  IF is_none(rest) THEN None ELSE Some(<<bytes[1]>> \o unwrap(rest))
    ELSE IF IsLead2(bytes[1]) /\ Len(bytes) >= 2 /\ IsContinuation(bytes[2])
    THEN LET rest == from_utf8(Tail(Tail(bytes)))
             cp   == (bytes[1] - 192) * 64 + (bytes[2] - 128)
         IN  IF is_none(rest) THEN None ELSE Some(<<cp>> \o unwrap(rest))
    ELSE None

\* IStr::cast_bytes: the UTF-8 encoding of a string
RECURSIVE cast_bytes(_)
cast_bytes(str) ==
    IF str = <<>> THEN <<>>
    ELSE IF str[1] < 128
    THEN <<str[1]>> \o cast_bytes(Tail(str))
    ELSE <<192 + (str[1] \div 64), 128 + (str[1] % 64)>> \o cast_bytes(Tail(str))

cast_str(bytes) == from_utf8(bytes)

(***************************************************************************)
(* Source identities, file contents and import resolvers.                  *)
(***************************************************************************)
Paths == {"a", "b"}

Code1     == <<49>>          \* "1"
CodeBrace == <<123>>         \* "{"
CodeUml   == <<195, 169>>    \* "e-acute", two bytes, one scalar value
BadUtf8   == <<195>>         \* a lead byte without its continuation

\* ImportResolver::load_file_contents: Some(bytes), or None for a load error
Resolvers ==
    { [a |-> Some(Code1),     b |-> Some(CodeUml)],
      [a |-> Some(CodeBrace), b |-> Some(BadUtf8)],
      [a |-> Some(BadUtf8),   b |-> None] }

load_file_contents(resolver, path) == resolver[path]

\* jrsonnet_parser::parse: Some(ast) or None for a syntax error; the ast of a
\* source is tagged with its code
parse(code) == IF code \in {<<49>>, <<233>>} THEN Some([ast |-> code]) ELSE None

(***************************************************************************)
(* Values, locations, frame descriptions.                                  *)
(***************************************************************************)
Vals == {"v1", "v2"}
\* ExprLocation as <<begin, end>> offsets in one source
Locs == {<<1, 2>>}
Descs == {"d1"}

\* ExprLocation::belongs_to
belongs_to(self, other) == other[1] <= self[1] /\ other[2] >= self[2]

(***************************************************************************)
(* Results.  A result is Ok with a value, a string or bytes, or Err with   *)
(* an error, its StackTrace and (for the proofs) the calls that were open  *)
(* when the error was created.                                             *)
(***************************************************************************)
NoResult == [kind |-> "none", val |-> "-", data |-> <<>>, err |-> "-",
             trace |-> <<>>, born |-> <<>>]
OkVal(v) == [kind |-> "ok", val |-> v, data |-> <<>>, err |-> "-",
             trace |-> <<>>, born |-> <<>>]
OkData(d) == [kind |-> "data", val |-> "-", data |-> d, err |-> "-",
              trace |-> <<>>, born |-> <<>>]
\* the Context that create_default_context returns
OkContext == [kind |-> "context", val |-> "-", data |-> <<>>, err |-> "-",
              trace |-> <<>>, born |-> <<>>]
\* LocError::new: an error starts with an empty trace
LocError_new(e, open) == [kind |-> "err", val |-> "-", data |-> <<>>, err |-> e,
                          trace |-> <<>>, born |-> open]
is_err(r) == r.kind = "err"

\* StackTraceElement { location, desc }
StackTraceElement(location, desc) == [location |-> location, desc |-> desc]

\* FileData::new_string
new_string(data) == [string |-> Some(data), bytes |-> None, parsed |-> None,
                     evaluated |-> None, evaluating |-> FALSE]
\* mutant: the loaded bytes are kept as if they were the decoded string
new_bytes_AsString(data) == new_string(data)

\* FileData::new_bytes
new_bytes(data) == [string |-> None, bytes |-> Some(data), parsed |-> None,
                    evaluated |-> None, evaluating |-> FALSE]
\* a vacant entry of the `files` map
Vacant == [vacant |-> TRUE]

\* mutant: an entry that holds no bytes counts as missing
is_vacant_NoBytes(entry) == entry = Vacant \/ is_none(entry.bytes)

\* the raw entry of the path is RawEntryMut::Vacant
is_vacant(entry) == entry = Vacant

\* mutant: the entry is inserted before the loaded bytes are looked at
leave_vacant_Insert(map, path) == [map EXCEPT ![path] = new_bytes(<<>>)]

\* `?` on the load or on the decoding returns before v.insert: the map is
\* left as it was
leave_vacant(map, path) == map

(***************************************************************************)
(* RefCell<EvaluationData>: the number of live RefMut guards.              *)
(***************************************************************************)
data_mut(borrows) == borrows + 1
drop_guard(borrows) == borrows - 1

(***************************************************************************)
(* RefCell<EvaluationSettings>: the number of live Ref guards.  borrow_mut  *)
(* panics while a Ref is alive.                                            *)
(***************************************************************************)
settings_ref(borrows) == borrows + 1
drop_ref(borrows) == borrows - 1
settings_mut_fails(borrows) == borrows > 0

VARIABLES
    files,             \* EvaluationData.files: path -> FileData or Vacant
    stack_depth,       \* EvaluationData.stack_depth
    stack_generation,  \* EvaluationData.stack_generation
    breakpoints,       \* EvaluationData.breakpoints: the breakpoints' locations
    collected,         \* Breakpoint.collected of each breakpoint
    max_stack,         \* EvaluationSettings.max_stack
    max_trace,         \* EvaluationSettings.max_trace
    import_resolver,   \* EvaluationSettings.import_resolver
    stack,             \* the open calls, outermost first
    ret,               \* result of the call that returned last
    last,              \* which call returned last
    data_borrows,      \* live RefMut guards of `data` between two steps
    loaded,            \* history: the bytes load_file_contents returned for a path
    first_val,         \* history: the first value evaluate returned for a path
    loads, parses, evals,  \* history: calls of load_file_contents / parse / evaluate
    parsed_ok, evaluated_ok, \* history: parses / evaluations that succeeded
    steps,             \* history: operations made so far
    tla_vars,          \* EvaluationSettings.tla_vars: name -> TlaArg
    settings_borrows,  \* live Ref guards of `settings` between two steps
    panicked,          \* a RefCell borrow failed or an `expect` fired: the process unwinds
    tla_calls,         \* history: the named arguments of each call made by with_tla
    native_args,       \* the arguments of the one call of a native callback
    native_reply,      \* what the host's callback does with them
    native_out,        \* what JsonnetNativeCallbackHandler::call made of the call
    fn_input,          \* the function applied outside a session, with its arguments
    fn_output          \* what it returned

vars == <<files, stack_depth, stack_generation, breakpoints, collected,
          max_stack, max_trace, import_resolver, stack, ret, last,
          data_borrows, loaded, first_val, loads, parses, evals, parsed_ok,
          evaluated_ok, steps, tla_vars, settings_borrows, panicked,
          tla_calls, native_args, native_reply, native_out, fn_input, fn_output>>

settings == <<max_stack, max_trace, import_resolver>>
history == <<loaded, first_val, loads, parses, evals, parsed_ok, evaluated_ok>>
tla == <<tla_vars, settings_borrows, panicked, tla_calls>>
native == <<native_args, native_reply, native_out>>
applied == <<fn_input, fn_output>>


(***************************************************************************)
(* Helpers of the model.                                                   *)
(***************************************************************************)
Frame(kind, path, loc, desc) == [kind |-> kind, path |-> path, loc |-> loc, desc |-> desc]
Top == stack[Len(stack)]
Pop(s) == SubSeq(s, 1, Len(s) - 1)
Bump(counter, path) == [counter EXCEPT ![path] = @ + 1]
Returned(op, path) == [op |-> op, path |-> path, cached |-> FALSE, inner |-> NoResult]
\* the call was served from the memo of the evaluated value
ReturnedCached(op, path) == [op |-> op, path |-> path, cached |-> TRUE, inner |-> NoResult]
\* the call ran a body (or was handed a value): `inner` is what the body returned
\* (what the call was handed)
ReturnedFrom(op, path, inner) == [op |-> op, path |-> path, cached |-> FALSE, inner |-> inner]
\* every operation counts against the session's budget; nothing runs once the
\* process unwinds from a panic
Step == ~panicked /\ steps < MaxSteps /\ steps' = steps + 1

\* what the body of the innermost open call may return: a value, an error of
\* its own, or the error that the call it made last returned to it
BodyResults ==
    {OkVal(v) : v \in Vals}
        \cup {LocError_new("RuntimeError", stack)}
        \cup (IF is_err(ret) THEN {ret} ELSE {})

\* A State as the embedder has set it up before the first evaluation: the
\* evaluation data is EvaluationData::default(), max_stack, max_trace and the
\* import resolver are the embedder's settings.
\* EvaluationData::default() and the State's bookkeeping before the first call
Default ==
    /\ files = [p \in Paths |-> Vacant]
    /\ stack_depth = 0
    /\ stack_generation = 0
    /\ collected = [b \in breakpoints |-> <<>>]
    /\ stack = <<>>
    /\ ret = NoResult
    /\ last = Returned("none", "-")
    /\ data_borrows = 0
    /\ loaded = [p \in Paths |-> None]
    /\ first_val = [p \in Paths |-> None]
    /\ loads = [p \in Paths |-> 0]
    /\ parses = [p \in Paths |-> 0]
    /\ evals = [p \in Paths |-> 0]
    /\ parsed_ok = [p \in Paths |-> 0]
    /\ evaluated_ok = [p \in Paths |-> 0]
    /\ steps = 0
    /\ settings_borrows = 0
    /\ panicked = FALSE
    /\ tla_calls = <<>>

\* no native callback is part of the session
NoNative ==
    /\ native_args = <<>>
    /\ native_reply = <<>>
    /\ native_out = <<>>
    /\ fn_input = <<>>
    /\ fn_output = <<>>

Init ==
    /\ breakpoints = {}
    /\ max_stack \in 0..MaxStackSetting
    /\ max_trace = MaxTraceSetting
    /\ import_resolver \in Resolvers
    /\ tla_vars = <<>>
    /\ Default
    /\ NoNative

(***************************************************************************)
(* State::import_resolved_str                                              *)
(***************************************************************************)
import_resolved_str(path) ==
    LET vacant == is_vacant(files[path])
        data == load_file_contents(import_resolver, path)
        utf8 == from_utf8(unwrap(data))
    IN
    /\ Step
    /\ data_borrows = 0
    /\ data_borrows' = drop_guard(data_mut(data_borrows))
    /\ loads' = IF vacant THEN Bump(loads, path) ELSE loads
    /\ loaded' = IF vacant /\ is_some(data) THEN [loaded EXCEPT ![path] = data] ELSE loaded
    /\ last' = Returned("import_resolved_str", path)
    /\ IF vacant /\ is_none(data)
       THEN /\ ret' = LocError_new("ResolvedFileNotFound", stack)
            /\ files' = leave_vacant(files, path)
       ELSE IF vacant /\ is_none(utf8)
       THEN /\ ret' = LocError_new("ImportBadFileUtf8", stack)
            /\ files' = leave_vacant(files, path)
       ELSE LET file == IF vacant THEN new_string(unwrap(utf8)) ELSE files[path]
            IN  IF is_some(file.string)
                THEN /\ ret' = OkData(unwrap(file.string))
                     /\ files' = [files EXCEPT ![path] = file]
                ELSE LET str == cast_str(unwrap(file.bytes))
                     IN  IF is_none(str)
                         THEN /\ ret' = LocError_new("ImportBadFileUtf8", stack)
                              /\ files' = [files EXCEPT ![path] = file]
                         ELSE /\ ret' = OkData(unwrap(str))
                              /\ files' = [files EXCEPT ![path] = [file EXCEPT !.string = str]]
    /\ UNCHANGED <<stack_depth, stack_generation, breakpoints, collected, settings, tla, native, applied, stack,
                   first_val, parses, evals, parsed_ok, evaluated_ok>>

(***************************************************************************)
(* State::import_resolved_bin                                              *)
(***************************************************************************)
import_resolved_bin(path) ==
    LET vacant == is_vacant(files[path])
        data == load_file_contents(import_resolver, path)
    IN
    /\ Step
    /\ data_borrows = 0
    /\ data_borrows' = drop_guard(data_mut(data_borrows))
    /\ loads' = IF vacant THEN Bump(loads, path) ELSE loads
    /\ loaded' = IF vacant /\ is_some(data) THEN [loaded EXCEPT ![path] = data] ELSE loaded
    /\ last' = Returned("import_resolved_bin", path)
    /\ IF vacant /\ is_none(data)
       THEN /\ ret' = LocError_new("ResolvedFileNotFound", stack)
            /\ files' = leave_vacant(files, path)
       ELSE LET file == IF vacant THEN new_bytes(unwrap(data)) ELSE files[path]
            IN  IF is_some(file.bytes)
                THEN /\ ret' = OkData(unwrap(file.bytes))
                     /\ files' = [files EXCEPT ![path] = file]
                ELSE LET bytes == Some(cast_bytes(unwrap(file.string)))
                     IN  /\ ret' = OkData(unwrap(bytes))
                         /\ files' = [files EXCEPT ![path] = [file EXCEPT !.bytes = bytes]]
    /\ UNCHANGED <<stack_depth, stack_generation, breakpoints, collected, settings, tla, native, applied, stack,
                   first_val, parses, evals, parsed_ok, evaluated_ok>>


(***************************************************************************)
(* State::import_resolved, up to the call of evaluate.                     *)
(* A step that returns early leaves `stack` alone; the step that reaches   *)
(* evaluate opens an "import" call whose body is the evaluation.           *)
(***************************************************************************)
\* mutant: the guard is still alive when evaluate is called
drop_data_Keep(borrows) == borrows

\* drop(data) before evaluate
drop_data(borrows) == borrows - 1

\* mutant: the memo of the evaluated value is never hit
cached_value_Miss(file) == None

\* the memo an import is served from: `if let Some(val) = &file.evaluated`
cached_value(file) == file.evaluated

\* mutant: the check never sees an evaluation in progress
is_evaluating_Never(file) == FALSE

\* the `evaluating` check that guards the evaluation of a file
is_evaluating(file) == file.evaluating

\* mutant: the flag is never raised
set_evaluating_Skip(file) == file

\* file.evaluating = true
set_evaluating(file) == [file EXCEPT !.evaluating = TRUE]

import_resolved(path) ==
    LET vacant == is_vacant(files[path])
        data == load_file_contents(import_resolver, path)
        utf8 == from_utf8(unwrap(data))
        file1 == IF vacant THEN new_string(unwrap(utf8)) ELSE files[path]
        str2 == IF is_none(file1.string) THEN from_utf8(unwrap(file1.bytes)) ELSE file1.string
        file2 == [file1 EXCEPT !.string = str2]
        code == unwrap(file2.string)
        must_parse == is_none(file2.parsed)
        parsed3 == IF must_parse THEN parse(code) ELSE file2.parsed
        file3 == [file2 EXCEPT !.parsed = parsed3]
        \* how far the call gets
        outcome ==
            IF vacant /\ is_none(data) THEN "load_failed"
            ELSE IF vacant /\ is_none(utf8) THEN "bad_utf8_vacant"
            ELSE IF is_some(cached_value(file1)) THEN "cached"
            ELSE IF is_none(str2) THEN "bad_utf8"
            ELSE IF is_none(parsed3) THEN "syntax_error"
            ELSE IF is_evaluating(file3) THEN "recursion"
            ELSE "evaluate"
        parsing == outcome \in {"syntax_error", "recursion", "evaluate"} /\ must_parse
    IN
    /\ Step
    /\ data_borrows = 0
    /\ loads' = IF vacant THEN Bump(loads, path) ELSE loads
    /\ loaded' = IF vacant /\ is_some(data) THEN [loaded EXCEPT ![path] = data] ELSE loaded
    /\ parses' = IF parsing THEN Bump(parses, path) ELSE parses
    /\ parsed_ok' = IF parsing /\ is_some(parsed3) THEN Bump(parsed_ok, path) ELSE parsed_ok
    /\ evals' = IF outcome = "evaluate" THEN Bump(evals, path) ELSE evals
    /\ last' = IF outcome = "cached" THEN ReturnedCached("import_resolved", path)
               ELSE Returned("import_resolved", path)
    /\ CASE outcome = "load_failed" ->
              /\ ret' = LocError_new("ResolvedFileNotFound", stack)
              /\ files' = leave_vacant(files, path)
              /\ stack' = stack
              /\ data_borrows' = drop_guard(data_mut(data_borrows))
         [] outcome = "bad_utf8_vacant" ->
              /\ ret' = LocError_new("ImportBadFileUtf8", stack)
              /\ files' = leave_vacant(files, path)
              /\ stack' = stack
              /\ data_borrows' = drop_guard(data_mut(data_borrows))
         [] outcome = "cached" ->
              /\ ret' = OkVal(unwrap(cached_value(file1)))
              /\ files' = [files EXCEPT ![path] = file1]
              /\ stack' = stack
              /\ data_borrows' = drop_guard(data_mut(data_borrows))
         [] outcome = "bad_utf8" ->
              /\ ret' = LocError_new("ImportBadFileUtf8", stack)
              /\ files' = [files EXCEPT ![path] = file1]
              /\ stack' = stack
              /\ data_borrows' = drop_guard(data_mut(data_borrows))
         [] outcome = "syntax_error" ->
              /\ ret' = LocError_new("ImportSyntaxError", stack)
              /\ files' = [files EXCEPT ![path] = file2]
              /\ stack' = stack
              /\ data_borrows' = drop_guard(data_mut(data_borrows))
         [] outcome = "recursion" ->
              /\ ret' = LocError_new("InfiniteRecursionDetected", stack)
              /\ files' = [files EXCEPT ![path] = file3]
              /\ stack' = stack
              /\ data_borrows' = drop_guard(data_mut(data_borrows))
         [] outcome = "evaluate" ->
              /\ ret' = NoResult
              /\ files' = [files EXCEPT ![path] = set_evaluating(file3)]
              /\ stack' = Append(stack, Frame("import", path, None, "-"))
              /\ data_borrows' = drop_data(data_mut(data_borrows))
    /\ UNCHANGED <<stack_depth, stack_generation, breakpoints, collected, settings, tla, native, applied,
                   first_val, evaluated_ok>>

(***************************************************************************)
(* State::import_resolved, from the return of evaluate on.                 *)
(***************************************************************************)
\* mutant: the value is returned but not memoized
store_evaluated_Forget(file, v) == file

\* the memo written when evaluate returned Ok(v)
store_evaluated(file, v) == [file EXCEPT !.evaluated = Some(v)]
\* mutant: a failed evaluation starts the entry over from its source text
keep_evaluated_Reset(file) == new_string(unwrap(file.string))

\* the memo left when evaluate returned Err
keep_evaluated(file) == file

\* mutant: the flag is only cleared on the success path
clear_evaluating_Skip(file) == file

\* file.evaluating = false
clear_evaluating(file) == [file EXCEPT !.evaluating = FALSE]

import_resolved_return ==
    /\ stack # <<>>
    /\ Top.kind = "import"
    /\ Step
    /\ data_borrows = 0
    /\ \E res \in BodyResults :
        LET path == Top.path
            file == clear_evaluating(files[path])
        IN
        /\ files[path] # Vacant
        /\ files' = [files EXCEPT ![path] =
                        IF is_err(res) THEN keep_evaluated(file)
                        ELSE store_evaluated(file, res.val)]
        /\ evaluated_ok' = IF is_err(res) THEN evaluated_ok ELSE Bump(evaluated_ok, path)
        /\ first_val' = IF is_err(res) \/ is_some(first_val[path]) THEN first_val
                        ELSE [first_val EXCEPT ![path] = Some(res.val)]
        /\ ret' = res
        /\ last' = Returned("import_resolved", path)
        /\ stack' = Pop(stack)
        /\ data_borrows' = drop_guard(data_mut(data_borrows))
    /\ UNCHANGED <<stack_depth, stack_generation, breakpoints, collected, settings, tla, native, applied,
                   loaded, loads, parses, evals, parsed_ok>>

(***************************************************************************)
(* State::import and State::import_from: resolve, then import_resolved.    *)
(* The resolver either fails or names a source identity.                   *)
(***************************************************************************)
resolve_failed(op) ==
    /\ Step
    /\ ret' = LocError_new("ImportFileNotFound", stack)
    /\ last' = Returned(op, "-")
    /\ UNCHANGED <<files, stack_depth, stack_generation, breakpoints, collected,
                   settings, tla, native, applied, stack, data_borrows, history>>

import ==
    \/ resolve_failed("resolve")
    \/ \E resolved \in Paths : import_resolved(resolved)

import_from ==
    \/ resolve_failed("resolve_from")
    \/ \E resolved \in Paths : import_resolved(resolved)

(***************************************************************************)
(* State::set_import_resolver                                              *)
(***************************************************************************)
set_import_resolver ==
    /\ Step
    /\ \E resolver \in Resolvers \ {import_resolver} :
        IF settings_mut_fails(settings_borrows)
        THEN panicked' = TRUE /\ import_resolver' = import_resolver
        ELSE panicked' = panicked /\ import_resolver' = resolver
    /\ UNCHANGED <<files, stack_depth, stack_generation, breakpoints, collected,
                   max_stack, max_trace, stack, ret, last, data_borrows, history,
                   tla_vars, settings_borrows, tla_calls, native, applied>>

(***************************************************************************)
(* Stack frames: State::push, State::push_val, State::push_description.    *)
(***************************************************************************)
\* mutant: the check is never positive
overflows_Never(depth, limit) == FALSE

\* the overflow check at the entry of a frame
overflows(depth, limit) == depth > limit

\* mutant: the trace stops growing at max_trace elements
push_trace_Cut(result, location, desc) ==
    IF is_err(result) /\ Len(result.trace) < max_trace
    THEN [result EXCEPT !.trace = Append(@, StackTraceElement(location, desc))]
    ELSE result

\* what a frame does with the result of its body: an error gets one
\* StackTraceElement pushed onto its trace, a value is passed on
push_trace(result, location, desc) ==
    IF is_err(result)
    THEN [result EXCEPT !.trace = Append(@, StackTraceElement(location, desc))]
    ELSE result

\* mutant: the depth is not given back
leave_depth_Keep(depth) == depth

\* the block that ends a frame: stack_depth -= 1; stack_generation += 1
leave_depth(depth) == depth - 1

\* mutant: the generation stands still
leave_generation_Keep(generation) == generation

\* ... stack_generation += 1
leave_generation(generation) == generation + 1

\* Breakpoints::insert, the update of one breakpoint's `collected`
\* (`at` is history: the stack depth each kept result was recorded at)
Breakpoint_collect(coll, depth, generation, result) ==
    LET entry == IF generation \in DOMAIN coll THEN coll[generation]
                 ELSE [depth |-> 0, vals |-> <<>>, at |-> <<>>]
        clear == depth > entry.depth
        vals == IF clear THEN <<>> ELSE entry.vals
        at == IF clear THEN <<>> ELSE entry.at
        new == [entry EXCEPT !.vals = Append(vals, result), !.at = Append(at, depth)]
    IN  [g \in DOMAIN coll \cup {generation} |-> IF g = generation THEN new ELSE coll[g]]

\* mutant: every breakpoint records the result, covered or not
Breakpoints_insert_All(depth, generation, loc, result) ==
    [item \in breakpoints |->
        Breakpoint_collect(collected[item], depth, generation, result)]

\* Breakpoints::insert, what it leaves in the breakpoints
Breakpoints_insert(depth, generation, loc, result) ==
    IF breakpoints = {} THEN collected
    ELSE [item \in breakpoints |->
            IF belongs_to(item, loc)
            THEN Breakpoint_collect(collected[item], depth, generation, result)
            ELSE collected[item]]

\* mutant: a covered error is kept by the breakpoint and a value handed on
Breakpoints_insert_result_Swallow(loc, result) ==
    IF is_err(result) /\ \E item \in breakpoints : belongs_to(item, loc)
    THEN OkVal("v1")
    ELSE result

\* Breakpoints::insert, what it returns: the result it was given
Breakpoints_insert_result(loc, result) == result

\* entry of push / push_val / push_description
enter_frame(kind, loc, desc) ==
    /\ Step
    /\ data_borrows = 0
    /\ last' = Returned(kind, "-")
    /\ IF overflows(stack_depth, max_stack)
       THEN /\ data_borrows' = drop_guard(data_mut(data_borrows))
            /\ ret' = LocError_new("StackOverflow", stack)
            /\ UNCHANGED <<stack_depth, stack>>
       ELSE /\ stack_depth' = stack_depth + 1
            /\ data_borrows' = drop_guard(data_mut(data_borrows))
            /\ stack' = Append(stack, Frame(kind, "-", loc, desc))
            /\ ret' = NoResult
    /\ UNCHANGED <<files, stack_generation, breakpoints, collected, settings, tla, native, applied, history>>

push == \E e \in {None} \cup {Some(l) : l \in Locs}, frame_desc \in Descs :
            enter_frame("push", e, frame_desc)

push_val == \E e \in Locs, frame_desc \in Descs :
                enter_frame("push_val", Some(e), frame_desc)

push_description == \E frame_desc \in Descs :
                        enter_frame("push_description", None, frame_desc)

\* the rest of push / push_description once the body f() has returned
leave_frame(kind) ==
    /\ stack # <<>>
    /\ Top.kind = kind
    /\ Step
    /\ data_borrows = 0
    /\ \E result \in BodyResults :
        /\ stack_depth' = leave_depth(stack_depth)
        /\ stack_generation' = leave_generation(stack_generation)
        /\ data_borrows' = drop_guard(data_mut(data_borrows))
        /\ collected' = IF kind = "push_val"
                        THEN Breakpoints_insert(stack_depth', stack_generation',
                                                unwrap(Top.loc), result)
                        ELSE collected
        /\ ret' = push_trace(IF kind = "push_val"
                              THEN Breakpoints_insert_result(unwrap(Top.loc), result)
                              ELSE result,
                              Top.loc, Top.desc)
        /\ last' = ReturnedFrom(kind, "-", result)
    /\ stack' = Pop(stack)
    /\ UNCHANGED <<files, breakpoints, settings, tla, native, applied, history>>

push_return == leave_frame("push")
push_val_return == leave_frame("push_val")
push_description_return == leave_frame("push_description")

Next ==
    \/ \E path \in Paths : import_resolved_str(path)
    \/ \E path \in Paths : import_resolved_bin(path)
    \/ \E path \in Paths : import_resolved(path)
    \/ import_resolved_return
    \/ import
    \/ import_from
    \/ set_import_resolver
    \/ push
    \/ push_val
    \/ push_description
    \/ push_return
    \/ push_val_return
    \/ push_description_return

Spec == Init /\ [][Next]_vars

(***************************************************************************)
(* Frames under breakpoints.  No code of the crate adds a breakpoint, so   *)
(* Breakpoints::insert is exercised from every set of breakpoints over the *)
(* locations below, with expressions completing at those locations.        *)
(***************************************************************************)
ExprLocs == {<<0, 3>>, <<1, 2>>}

InitBreak ==
    /\ breakpoints \in SUBSET ExprLocs
    /\ max_stack \in 0..MaxStackSetting
    /\ max_trace = MaxTraceSetting
    /\ import_resolver = CHOOSE resolver \in Resolvers : TRUE
    /\ tla_vars = <<>>
    /\ Default
    /\ NoNative

push_val_at == \E e \in ExprLocs, frame_desc \in Descs :
                   enter_frame("push_val", Some(e), frame_desc)

NextBreak ==
    \/ push
    \/ push_val_at
    \/ push_description
    \/ push_return
    \/ push_val_return
    \/ push_description_return

SpecBreak == InitBreak /\ [][NextBreak]_vars

(***************************************************************************)
(* Top-level arguments and the settings cell: State::with_tla,             *)
(* State::evaluate_snippet, State::create_default_context and the setters  *)
(* that go through settings_mut.                                           *)
(* Where with_tla and evaluate_snippet build their context on the way to   *)
(* the evaluation, the initializer is taken to return without calling back *)
(* into the State (as DummyContextInitializer does); an initializer that   *)
(* does call back is the body of the create_default_context call.          *)
(***************************************************************************)
\* Val::Func
Funcs == {"f"}
is_func(val) == val \in Funcs
TlaNames == {"x", "y"}
TlaArg_Val(value) == [kind |-> "Val", value |-> value]
TlaArg_String(value) == [kind |-> "String", value |-> value]
TlaArg_Code(parsed) == [kind |-> "Code", value |-> parsed]
Snippets == {Code1, CodeBrace}

\* what func.evaluate / evaluate may return: as BodyResults, or a function
EvalResults == BodyResults \cup {OkVal(func) : func \in Funcs}

\* mutant: a name that is registered keeps its argument
tla_vars_insert_First(map, name, arg) ==
    [n \in DOMAIN map \cup {name} |-> IF n \in DOMAIN map THEN map[n] ELSE arg]

\* HashMap::insert on tla_vars
tla_vars_insert(map, name, arg) ==
    [n \in DOMAIN map \cup {name} |-> IF n = name THEN arg ELSE map[n]]

\* mutant: the function is called without named arguments
tla_args_None(map) == <<>>

\* the named arguments of the TLA call: &self.settings().tla_vars
tla_args(map) == map

\* mutant: a snippet that evaluates to a function is applied, its value returned
snippet_result_Applied(result) ==
    IF ~is_err(result) /\ is_func(result.val) THEN OkVal("v1") ELSE result

\* evaluate_snippet returns what evaluate returned
snippet_result(result) == result

InitTla ==
    /\ breakpoints = {}
    /\ max_stack \in 0..MaxStackSetting
    /\ max_trace = MaxTraceSetting
    /\ import_resolver = CHOOSE resolver \in Resolvers : TRUE
    /\ tla_vars = <<>>
    /\ Default
    /\ NoNative

\* State::with_tla up to the call of func.evaluate
with_tla(val) ==
    /\ Step
    /\ last' = ReturnedFrom("with_tla", "-", OkVal(val))
    /\ IF ~is_func(val)
       THEN /\ ret' = OkVal(val)
            /\ UNCHANGED <<stack_depth, stack, data_borrows, settings_borrows, tla_calls>>
       ELSE /\ data_borrows = 0
            /\ data_borrows' = drop_guard(data_mut(data_borrows))
            /\ IF overflows(stack_depth, max_stack)
               THEN /\ ret' = LocError_new("StackOverflow", stack)
                    /\ UNCHANGED <<stack_depth, stack, settings_borrows, tla_calls>>
               ELSE /\ stack_depth' = stack_depth + 1
                    /\ stack' = Append(stack, Frame("with_tla", "-", None, "during TLA call"))
                    /\ settings_borrows' = settings_ref(settings_borrows)
                    /\ tla_calls' = Append(tla_calls,
                            [func |-> val, location |-> None, args |-> tla_args(tla_vars)])
                    /\ ret' = NoResult
    /\ UNCHANGED <<files, stack_generation, breakpoints, collected, settings, history,
                   tla_vars, panicked, native, applied>>

\* State::with_tla once func.evaluate has returned: the Ref taken for the
\* arguments is dropped, push_description ends the frame
with_tla_return ==
    /\ stack # <<>>
    /\ Top.kind = "with_tla"
    /\ Step
    /\ data_borrows = 0
    /\ \E result \in EvalResults :
        /\ settings_borrows' = drop_ref(settings_borrows)
        /\ stack_depth' = leave_depth(stack_depth)
        /\ stack_generation' = leave_generation(stack_generation)
        /\ data_borrows' = drop_guard(data_mut(data_borrows))
        /\ ret' = push_trace(result, Top.loc, Top.desc)
        /\ last' = ReturnedFrom("with_tla", "-", result)
    /\ stack' = Pop(stack)
    /\ UNCHANGED <<files, breakpoints, collected, settings, history,
                   tla_vars, panicked, tla_calls, native, applied>>

\* State::evaluate_snippet up to the call of evaluate
evaluate_snippet(code) ==
    /\ Step
    /\ last' = Returned("evaluate_snippet", "-")
    /\ IF is_none(parse(code))
       THEN /\ ret' = LocError_new("ImportSyntaxError", stack)
            /\ stack' = stack
       ELSE /\ ret' = NoResult
            /\ stack' = Append(stack, Frame("evaluate_snippet", "-", None, "-"))
    /\ UNCHANGED <<files, stack_depth, stack_generation, breakpoints, collected,
                   settings, data_borrows, history, tla, native, applied>>

\* State::evaluate_snippet once evaluate has returned
evaluate_snippet_return ==
    /\ stack # <<>>
    /\ Top.kind = "evaluate_snippet"
    /\ Step
    /\ \E result \in EvalResults :
        /\ ret' = snippet_result(result)
        /\ last' = ReturnedFrom("evaluate_snippet", "-", result)
    /\ stack' = Pop(stack)
    /\ UNCHANGED <<files, stack_depth, stack_generation, breakpoints, collected,
                   settings, data_borrows, history, tla, native, applied>>

\* State::create_default_context up to the call of initialize: the Ref of the
\* let binding lives to the end of the function
create_default_context ==
    /\ Step
    /\ settings_borrows' = settings_ref(settings_borrows)
    /\ stack' = Append(stack, Frame("create_default_context", "-", None, "-"))
    /\ ret' = NoResult
    /\ last' = Returned("create_default_context", "-")
    /\ UNCHANGED <<files, stack_depth, stack_generation, breakpoints, collected,
                   settings, data_borrows, history, tla_vars, panicked, tla_calls, native, applied>>

\* State::create_default_context once initialize has returned its Context
create_default_context_return ==
    /\ stack # <<>>
    /\ Top.kind = "create_default_context"
    /\ Step
    /\ settings_borrows' = drop_ref(settings_borrows)
    /\ stack' = Pop(stack)
    /\ ret' = OkContext
    /\ last' = Returned("create_default_context", "-")
    /\ UNCHANGED <<files, stack_depth, stack_generation, breakpoints, collected,
                   settings, data_borrows, history, tla_vars, panicked, tla_calls, native, applied>>

\* a setter: settings_mut(), then the assignment
set_setting(op, name, given, new_max_stack, new_tla_vars) ==
    /\ Step
    /\ last' = ReturnedFrom(op, name, given)
    /\ IF settings_mut_fails(settings_borrows)
       THEN /\ panicked' = TRUE
            /\ UNCHANGED <<max_stack, tla_vars>>
       ELSE /\ panicked' = panicked
            /\ max_stack' = new_max_stack
            /\ tla_vars' = new_tla_vars
    /\ UNCHANGED <<files, stack_depth, stack_generation, breakpoints, collected,
                   max_trace, import_resolver, stack, ret, data_borrows, history,
                   settings_borrows, tla_calls, native, applied>>

\* State::add_tla
add_tla == \E name \in TlaNames, value \in Vals :
               set_setting("add_tla", name, TlaArg_Val(value), max_stack,
                           tla_vars_insert(tla_vars, name, TlaArg_Val(value)))

\* State::add_tla_str
add_tla_str == \E name \in TlaNames, value \in {"s1"} :
                   set_setting("add_tla_str", name, TlaArg_String(value), max_stack,
                               tla_vars_insert(tla_vars, name, TlaArg_String(value)))

\* State::add_tla_code: a syntax error returns before settings_mut
add_tla_code ==
    \E name \in TlaNames, code \in Snippets :
        LET parsed == parse(code)
        IN  IF is_none(parsed)
            THEN /\ Step
                 /\ ret' = LocError_new("ImportSyntaxError", stack)
                 /\ last' = Returned("add_tla_code", name)
                 /\ UNCHANGED <<files, stack_depth, stack_generation, breakpoints,
                                collected, settings, stack, data_borrows, history,
                                tla, native, applied>>
            ELSE /\ set_setting("add_tla_code", name, TlaArg_Code(unwrap(parsed)),
                                max_stack,
                                tla_vars_insert(tla_vars, name,
                                                TlaArg_Code(unwrap(parsed))))

\* State::set_max_stack
set_max_stack == \E trace \in 0..MaxStackSetting :
                     set_setting("set_max_stack", "-", NoResult, trace, tla_vars)

NextTla ==
    \/ \E val \in {"v1"} \cup Funcs : with_tla(val)
    \/ with_tla_return
    \/ \E code \in Snippets : evaluate_snippet(code)
    \/ evaluate_snippet_return
    \/ create_default_context
    \/ create_default_context_return
    \/ add_tla
    \/ add_tla_str
    \/ add_tla_code
    \/ set_max_stack
    \/ push
    \/ push_return

SpecTla == InitTla /\ [][NextTla]_vars

(***************************************************************************)
(* The libjsonnet binding: JsonnetNativeCallbackHandler::call.             *)
(* The host's callback is an input: what it stores in the success flag and *)
(* what the pointer it returns points to.  Memory is a matter of words: a  *)
(* word is the address of a boxed argument, null, or something else.       *)
(***************************************************************************)
RECURSIVE SeqsUpTo(_, _)
SeqsUpTo(elems, len) ==
    IF len = 0 THEN {<<>>}
    ELSE LET shorter == SeqsUpTo(elems, len - 1)
         IN  shorter \cup {Append(seq, e) : seq \in {q \in shorter : Len(q) = len - 1},
                                            e \in elems}

SuccessFlags == {0, 1, 2}
\* what the returned pointer points to; <<>> is the null pointer
Payloads == {None, Some([type |-> "string", val |-> "msg"]),
             Some([type |-> "number", val |-> "v1"])}

PtrTo(val) == [word |-> "box", val |-> val]
NullPtr == [word |-> "null", val |-> "-"]
Other(what) == [word |-> what, val |-> "-"]

\* n_args: Some(Box::new(a.clone())) for each argument, then None; as it
\* lies in the vector's buffer, a run of pointers ended by a null word
n_args(args) == [i \in 1..Len(args) + 1 |->
                    IF i <= Len(args) THEN PtrTo(args[i]) ELSE NullPtr]

\* the three words of the Vec value itself, in one of the orders the
\* compiler may lay them out
VecLayouts ==
    {layout \in [1..3 -> {"buffer", "capacity", "length"}] :
        \A i \in 1..3 : \A j \in 1..3 : i # j => layout[i] # layout[j]}

\* `&n_args as *const _ as *const *const Val`: the address of the Vec value,
\* not of its buffer.  What the callback reads at argv[0..=count]: the words
\* of the Vec, then whatever follows it on the stack
argv(args, layout) ==
    [i \in 1..Len(args) + 1 |-> IF i <= 3 THEN Other(layout[i]) ELSE Other("stack")]

\* Val::try_cast_str
try_cast_str(val) == IF val.type = "string" THEN Some(val.val) ELSE None

RuntimeError(message) == [LocError_new("RuntimeError", <<>>) EXCEPT !.val = message]
\* the process does not get to a result: a panic or a fault
Abort(why) == [kind |-> "abort", val |-> why, data |-> <<>>, err |-> "-",
               trace |-> <<>>, born |-> <<>>]

\* the part of call after the callback returned a valid pointer
call_result(success, val) ==
    IF success = 1 THEN OkVal(val)
    ELSE LET e == try_cast_str(val)
         IN  IF is_none(e) THEN Abort("error msg")
             ELSE RuntimeError(unwrap(e))

\* Box::from_raw of a null pointer is undefined: the read faults, or yields
\* some value
call_results(success, payload) ==
    IF is_some(payload) THEN {call_result(success, unwrap(payload))}
    ELSE {Abort("fault")} \cup
         {call_result(success, unwrap(garbage)) : garbage \in Payloads \ {None}}

InitNative ==
    /\ breakpoints = {}
    /\ max_stack = MaxStackSetting
    /\ max_trace = MaxTraceSetting
    /\ import_resolver = CHOOSE resolver \in Resolvers : TRUE
    /\ tla_vars = <<>>
    /\ Default
    /\ native_args \in SeqsUpTo(Vals, MaxArgs)
    /\ native_reply \in [success : SuccessFlags, payload : Payloads]
    /\ native_out = None
    /\ fn_input = <<>>
    /\ fn_output = <<>>

\* JsonnetNativeCallbackHandler::call
call ==
    /\ Step
    /\ native_out = None
    /\ \E layout \in VecLayouts,
          result \in call_results(native_reply.success, native_reply.payload) :
        /\ native_out' = Some([argv |-> argv(native_args, layout), result |-> result])
        /\ panicked' = (result.kind = "abort")
    /\ last' = Returned("call", "-")
    /\ UNCHANGED <<files, stack_depth, stack_generation, breakpoints, collected,
                   settings, stack, ret, data_borrows, history, tla_vars,
                   settings_borrows, tla_calls, native_args, native_reply, applied>>

NextNative == call

SpecNative == InitNative /\ [][NextNative]_vars

(***************************************************************************)
(* Functions of their arguments alone, applied to arguments drawn from     *)
(* bounded sets: FuncVal::params_len, jsonnet_native_callback,             *)
(* format_found.                                                           *)
(***************************************************************************)
\* jrsonnet_parser::Param(name, default): p[2] is the p.1 of the code
Param(name, default) == <<name, default>>
\* BuiltinParam { name, has_default }
BuiltinParam(name, has_default) == [name |-> name, has_default |-> has_default]
ParamNames == <<"a", "b", "c", "d">>

\* FuncVal
FuncVal_Id == [variant |-> "Id", params |-> <<>>]
FuncVal_Normal(params) == [variant |-> "Normal", params |-> params]
FuncVal_StaticBuiltin(params) == [variant |-> "StaticBuiltin", params |-> params]
FuncVal_Builtin(params) == [variant |-> "Builtin", params |-> params]

\* the parameter lists of up to MaxParams parameters, each with or without a
\* default
ParamsDescs ==
    {[i \in 1..Len(defaults) |-> Param(ParamNames[i], defaults[i])] :
        defaults \in SeqsUpTo({None, Some("expr")}, MaxParams)}
BuiltinParamLists ==
    {[i \in 1..Len(flags) |-> BuiltinParam(ParamNames[i], flags[i])] :
        flags \in SeqsUpTo(BOOLEAN, MaxParams)}
FuncVals ==
    {FuncVal_Id}
        \cup {FuncVal_Normal(params) : params \in ParamsDescs}
        \cup {FuncVal_StaticBuiltin(params) : params \in BuiltinParamLists}
        \cup {FuncVal_Builtin(params) : params \in BuiltinParamLists}

\* mutant: the count stops at the first parameter that has a default
params_len_Leading(func) ==
    IF func.variant = "Id" THEN 1
    ELSE LET has_default(i) == IF func.variant = "Normal"
                               THEN is_some(func.params[i][2])
                               ELSE func.params[i].has_default
         IN  Cardinality({i \in DOMAIN func.params :
                            \A j \in 1..i : ~has_default(j)})

\* FuncVal::params_len
params_len(func) ==
    CASE func.variant = "Id" -> 1
      [] func.variant = "Normal" ->
            Cardinality({i \in DOMAIN func.params : is_none(func.params[i][2])})
      [] func.variant = "StaticBuiltin" ->
            Cardinality({i \in DOMAIN func.params : ~func.params[i].has_default})
      [] func.variant = "Builtin" ->
            Cardinality({i \in DOMAIN func.params : ~func.params[i].has_default})

\* C strings as their bytes: "p", "\u00e9", and a lone lead byte
CStrs == {<<112>>, <<195, 169>>, <<195>>}
\* the arrays raw_params may point to: Some(string) or None for a null
\* pointer, with a null among them as the caller has to provide
RawParams ==
    {raw \in SeqsUpTo({None} \cup {Some(str) : str \in CStrs}, MaxRawParams) :
        \E i \in DOMAIN raw : is_none(raw[i])}

\* CStr::to_str
to_str(bytes) == from_utf8(bytes)

\* mutant: a null pointer is stepped over and the array read to its end
RECURSIVE read_params_SkipNull(_)
read_params_SkipNull(raw) ==
    IF raw = <<>> THEN Some(<<>>)
    ELSE IF is_none(raw[1]) THEN read_params_SkipNull(Tail(raw))
    ELSE LET param == to_str(unwrap(raw[1]))
             rest == read_params_SkipNull(Tail(raw))
         IN  IF is_none(param) \/ is_none(rest) THEN None
             ELSE Some(<<Param(unwrap(param), None)>> \o unwrap(rest))

\* the loop of jsonnet_native_callback over raw_params: the parameters read,
\* or None when `expect("not utf8")` fires
RECURSIVE read_params(_)
read_params(raw) ==
    IF is_none(raw[1]) THEN Some(<<>>)
    ELSE LET param == to_str(unwrap(raw[1]))
         IN  IF is_none(param) THEN None
             ELSE LET rest == read_params(Tail(raw))
                  IN  IF is_none(rest) THEN None
                      ELSE Some(<<Param(unwrap(param), None)>> \o unwrap(rest))

\* jsonnet_native_callback: what vm.add_native is given
jsonnet_native_callback(name, raw_params) ==
    LET params == read_params(raw_params)
    IN  IF is_none(params) THEN Abort("not utf8")
        ELSE [kind |-> "native", name |-> name, params |-> unwrap(params)]

\* the names format_found is given, and the two `what` of its callers
Suggestions == {"foo", "bar"}
Whats == {"variable", "field"}

\* the loop of format_found: the items from index i on, pushed onto out
RECURSIVE push_items(_, _, _)
push_items(out, list, i) ==
    IF i > Len(list) THEN out
    ELSE push_items((IF i # 1 THEN out \o ", " ELSE out) \o list[i], list, i + 1)

\* mutant: the plural is made of the first word only
format_found_OneS(list, what) ==
    IF list = <<>> THEN ""
    ELSE LET out1 == "" \o "\nThere is " \o what
             out2 == IF Len(list) > 1 THEN out1 \o "s" ELSE out1
             out3 == out2 \o " with similar name" \o " present: "
         IN  push_items(out3, list, 1)

\* format_found
format_found(list, what) ==
    IF list = <<>> THEN ""
    ELSE LET out1 == "" \o "\nThere is " \o what
             out2 == IF Len(list) > 1 THEN out1 \o "s" ELSE out1
             out3 == out2 \o " with similar name"
             out4 == IF Len(list) > 1 THEN out3 \o "s" ELSE out3
             out5 == out4 \o " present: "
         IN  push_items(out5, list, 1)

\* a function with the argument it is applied to
FnInput(fn, arg) == [fn |-> fn, arg |-> arg]

InitApplied ==
    /\ breakpoints = {}
    /\ max_stack = MaxStackSetting
    /\ max_trace = MaxTraceSetting
    /\ import_resolver = CHOOSE resolver \in Resolvers : TRUE
    /\ tla_vars = <<>>
    /\ Default
    /\ native_args = <<>>
    /\ native_reply = <<>>
    /\ native_out = <<>>
    /\ \/ \E func \in FuncVals : fn_input = FnInput("params_len", func)
       \/ \E raw \in RawParams : fn_input = FnInput("jsonnet_native_callback", raw)
       \/ \E list \in SeqsUpTo(Suggestions, MaxFound), what \in Whats :
            fn_input = FnInput("format_found", [list |-> list, what |-> what])
    /\ fn_output = None

\* the call of the function named in fn_input
apply(fn, result) ==
    /\ Step
    /\ fn_input.fn = fn
    /\ fn_output = None
    /\ fn_output' = Some(result)
    /\ UNCHANGED <<files, stack_depth, stack_generation, breakpoints, collected,
                   settings, stack, ret, last, data_borrows, history, tla, native,
                   fn_input>>

params_len_applied == apply("params_len", params_len(fn_input.arg))

jsonnet_native_callback_applied ==
    apply("jsonnet_native_callback", jsonnet_native_callback("f", fn_input.arg))

format_found_applied ==
    apply("format_found", format_found(fn_input.arg.list, fn_input.arg.what))

NextApplied ==
    \/ params_len_applied
    \/ jsonnet_native_callback_applied
    \/ format_found_applied

SpecApplied == InitApplied /\ [][NextApplied]_vars


(***************************************************************************)
(* Properties.                                                             *)
(***************************************************************************)
\* positions of the open evaluations of a source identity
ImportsOpen(p) == {i \in 1..Len(stack) : stack[i].kind = "import" /\ stack[i].path = p}
IsFile(p) == files[p] # Vacant
LastIs(op, p) == last.op = op /\ last.path = p
InfiniteRecursion(r) == is_err(r) /\ r.err = "InfiniteRecursionDetected"

\* C1: while the evaluating flag of a source identity p is set, an import of p
\* that returns has failed with InfiniteRecursionDetected, and p has no second
\* evaluation open.
C1_RecursiveImportRejected ==
    \A p \in Paths :
        (IsFile(p) /\ files[p].evaluating) =>
            /\ Cardinality(ImportsOpen(p)) <= 1
            /\ (LastIs("import_resolved", p) /\ ret # NoResult)
                    => InfiniteRecursion(ret)

C1_Witness ==
    \E p \in Paths :
        /\ IsFile(p) /\ files[p].evaluating
        /\ ImportsOpen(p) # {}
        /\ LastIs("import_resolved", p)
        /\ InfiniteRecursion(ret)

\* C2 as stated: every source identity is parsed at most once and evaluated at
\* most once in a session, failing calls included.
C2_ParsedEvaluatedOnce ==
    \A p \in Paths : parses[p] <= 1 /\ evals[p] <= 1

\* C2 amended: every source identity is parsed successfully at most once and
\* evaluated successfully at most once; a failed parse or evaluation is not
\* memoized and is run again by a later import.
C2_SucceedsOnce ==
    \A p \in Paths : parsed_ok[p] <= 1 /\ evaluated_ok[p] <= 1

C2_Witness ==
    \E p \in Paths : evals[p] = 2 /\ evaluated_ok[p] = 1 /\ parsed_ok[p] = 1

\* frames entered through push / push_val / push_description that are open
FramesOpen == {i \in 1..Len(stack) : stack[i].kind # "import"}

\* C3 as stated: with max_stack = N never more than N frames are open at once.
C3_AtMostMaxStackFrames ==
    Cardinality(FramesOpen) <= max_stack


\* a step made by import_resolved(p), entry or return
ImportStep(p) ==
    /\ steps' # steps
    /\ import_resolver' = import_resolver
    /\ LastIs("import_resolved", p)'
\* a step made by import_resolved_str(p) / import_resolved_bin(p)
ImportStrStep(p) ==
    /\ steps' # steps
    /\ import_resolver' = import_resolver
    /\ LastIs("import_resolved_str", p)'
ImportBinStep(p) ==
    /\ steps' # steps
    /\ import_resolver' = import_resolver
    /\ LastIs("import_resolved_bin", p)'
\* the step in which the evaluation of p returns to import_resolved
EvaluationReturns(p) ==
    /\ stack # <<>>
    /\ Top.kind = "import"
    /\ Top.path = p
    /\ stack' = Pop(stack)

\* C4: once the import of a source identity has succeeded, every later import
\* of it returns the value of the first successful evaluation, and makes no
\* call of load_file_contents, of the parser or of evaluate.
C4_CachedImport ==
    [][\A p \in Paths :
        (IsFile(p) /\ is_some(files[p].evaluated) /\ ImportStep(p)) =>
            /\ ret' = OkVal(unwrap(first_val[p]))
            /\ loads' = loads /\ parses' = parses /\ evals' = evals
            /\ files' = files
            /\ stack' = stack]_vars

C4_Witness ==
    \E p \in Paths, q \in Paths :
        /\ p # q
        /\ ImportsOpen(q) # {}
        /\ LastIs("import_resolved", p)
        /\ last.cached
        /\ ret = OkVal(unwrap(first_val[p]))
        /\ evals[p] = 1

\* C5: when the evaluation of an imported file fails, import_resolved returns
\* the error of the evaluation as it is, clears the evaluating flag, stores no
\* evaluated value and keeps the string, bytes and parsed memos; afterwards
\* import_resolved_str and import_resolved_bin are served from the memos and
\* an import is not rejected with InfiniteRecursionDetected.
C5_FailedEvaluation ==
    [][\A p \in Paths :
        /\ (EvaluationReturns(p) /\ is_err(ret')) =>
                /\ ret' \in BodyResults
                /\ ~files'[p].evaluating
                /\ is_none(files'[p].evaluated)
                /\ files'[p].string = files[p].string
                /\ files'[p].bytes = files[p].bytes
                /\ files'[p].parsed = files[p].parsed
        /\ (IsFile(p) /\ ~files[p].evaluating /\ ImportStep(p)) =>
                ~InfiniteRecursion(ret')
        /\ (IsFile(p) /\ is_some(files[p].string) /\ ImportStrStep(p)) =>
                ret' = OkData(unwrap(files[p].string)) /\ loads' = loads
        /\ (IsFile(p) /\ is_some(files[p].bytes) /\ ImportBinStep(p)) =>
                ret' = OkData(unwrap(files[p].bytes)) /\ loads' = loads]_vars

C5_Witness ==
    \E p \in Paths :
        /\ evals[p] = 1 /\ evaluated_ok[p] = 0
        /\ IsFile(p) /\ ~files[p].evaluating /\ is_none(files[p].evaluated)
        /\ LastIs("import_resolved_str", p)
        /\ ret.kind = "data"

\* C6: a cache entry is never removed, and a string, bytes, parsed or
\* evaluated memo that is set keeps its value in every later step.
C6_MemosMonotone ==
    [][\A p \in Paths :
        IsFile(p) =>
            /\ files'[p] # Vacant
            /\ is_some(files[p].string) => files'[p].string = files[p].string
            /\ is_some(files[p].bytes) => files'[p].bytes = files[p].bytes
            /\ is_some(files[p].parsed) => files'[p].parsed = files[p].parsed
            /\ is_some(files[p].evaluated) => files'[p].evaluated = files[p].evaluated]_vars

C6_Witness ==
    \E p \in Paths :
        /\ IsFile(p)
        /\ is_some(files[p].string) /\ is_some(files[p].bytes)
        /\ is_some(files[p].parsed) /\ is_some(files[p].evaluated)
        /\ steps = 4

\* C7: the return of a frame takes one from stack_depth and adds one to
\* stack_generation, whatever its body returned; stack_depth is the number
\* of open frames in every state, and stack_generation never decreases.
C7_FrameBalance ==
    [][/\ (stack # <<>> /\ Top.kind # "import" /\ stack' = Pop(stack)) =>
            /\ stack_depth' = stack_depth - 1
            /\ stack_generation' = stack_generation + 1
       /\ stack_generation' >= stack_generation
       /\ stack_depth' = Cardinality(FramesOpen)']_vars

C7_Witness ==
    /\ stack = <<>>
    /\ stack_depth = 0
    /\ stack_generation = 2
    /\ is_err(ret)
    /\ last.op = "push_val"

\* the trace elements of the frames an error has left, innermost first
RECURSIVE FrameTrace(_)
FrameTrace(frames) ==
    IF frames = <<>> THEN <<>>
    ELSE LET f == frames[Len(frames)]
             location == IF f.kind = "push_description" THEN None ELSE f.loc
         IN  IF f.kind = "import" THEN FrameTrace(Pop(frames))
             ELSE <<StackTraceElement(location, f.desc)>> \o FrameTrace(Pop(frames))

\* C8: the trace of an error holds exactly one element for every frame it
\* has propagated out of since it was created, innermost first, with the
\* frame's location (none for a description frame or a native call site) and
\* description, however long the trace gets; a value carries no trace.
C8_TraceMatchesFrames ==
    IF is_err(ret)
    THEN /\ Len(stack) <= Len(ret.born)
         /\ SubSeq(ret.born, 1, Len(stack)) = stack
         /\ ret.trace = FrameTrace(SubSeq(ret.born, Len(stack) + 1, Len(ret.born)))
    ELSE ret.trace = <<>>

C8_Witness ==
    /\ is_err(ret)
    /\ Len(ret.trace) = 2
    /\ Len(ret.trace) > max_trace
    /\ ret.trace[1].location # None
    /\ ret.trace[2].location = None

\* C9: import_resolved_bin returns the bytes load_file_contents returned for
\* the identity and fails only when the load fails; import_resolved_str
\* returns their UTF-8 decoding, or fails with ImportBadFileUtf8 when they
\* are not UTF-8; a string memo and a bytes memo of one identity hold the
\* same content.
C9_StrBinAgree ==
    \A p \in Paths :
        /\ (LastIs("import_resolved_bin", p) /\ ret.kind = "data") =>
                is_some(loaded[p]) /\ ret.data = unwrap(loaded[p])
        /\ (LastIs("import_resolved_bin", p) /\ is_err(ret)) =>
                ret.err = "ResolvedFileNotFound"
        /\ (LastIs("import_resolved_str", p) /\ ret.kind = "data") =>
                is_some(loaded[p]) /\ from_utf8(unwrap(loaded[p])) = Some(ret.data)
        /\ (LastIs("import_resolved_str", p) /\ is_err(ret)) =>
                \/ ret.err = "ResolvedFileNotFound"
                \/ /\ ret.err = "ImportBadFileUtf8"
                   /\ is_some(loaded[p])
                   /\ is_none(from_utf8(unwrap(loaded[p])))
        /\ (IsFile(p) /\ is_some(files[p].string) /\ is_some(files[p].bytes)) =>
                /\ cast_bytes(unwrap(files[p].string)) = unwrap(files[p].bytes)
                /\ from_utf8(unwrap(files[p].bytes)) = files[p].string

C9_Witness ==
    \E p \in Paths :
        /\ LastIs("import_resolved_bin", p)
        /\ ret = OkData(<<195, 169>>)
        /\ IsFile(p)
        /\ files[p].string = Some(<<233>>)
        /\ files[p].bytes = Some(<<195, 169>>)

\* C10: no RefMut of the evaluation data is alive while the evaluation of an
\* imported file or the body of a frame runs.
C10_NoBorrowAcrossBody ==
    stack # <<>> => data_borrows = 0

C10_Witness ==
    /\ Len(stack) = 3
    /\ stack[1].kind = "import"
    /\ stack[2].kind = "push_val"
    /\ stack[3].kind = "import"
    /\ last.op = "import_resolved_bin"
    /\ ret.kind = "data"
    /\ data_borrows = 0


\* C19: a file's evaluating flag is set exactly while an evaluation of that
\* source identity started by import_resolved is open; in particular no flag
\* is set when no import is in progress.
C19_FlagIffEvaluationOpen ==
    \A p \in Paths :
        (IsFile(p) /\ files[p].evaluating) <=> ImportsOpen(p) # {}

C19_Witness ==
    \E p \in Paths : \E q \in Paths \ {p} :
        /\ ImportsOpen(p) # {} /\ files[p].evaluating
        /\ LastIs("import_resolved", p) /\ InfiniteRecursion(ret)
        /\ IsFile(q) /\ ~files[q].evaluating /\ ImportsOpen(q) = {}

\* C20: no step calls load_file_contents for a source identity that has an
\* entry in the file cache, whichever resolver is installed.
C20_LoadOnlyWhenVacant ==
    [][\A p \in Paths : IsFile(p) => loads'[p] = loads[p]]_vars

\* an entry made by import_str was later read by import_bin, and the resolver
\* installed now returns other contents than the entry was loaded from
C20_Witness ==
    \E p \in Paths :
        /\ IsFile(p) /\ loads[p] = 1
        /\ is_some(files[p].string) /\ is_some(files[p].bytes)
        /\ LastIs("import_resolved_bin", p)
        /\ ret = OkData(unwrap(files[p].bytes))
        /\ load_file_contents(import_resolver, p) # loaded[p]

\* a step in which one of the import calls went to the resolver for p
FirstAccess(p) ==
    /\ steps' # steps
    /\ ~IsFile(p)
    /\ loads'[p] = loads[p] + 1
    /\ last'.path = p

\* C21: when the call that first goes to the resolver for a source identity
\* fails with ResolvedFileNotFound, or (import, import_str) with
\* ImportBadFileUtf8, the file cache is after the call what it was before.
C21_FailedFirstAccessLeavesCache ==
    [][\A p \in Paths :
        (/\ FirstAccess(p)
         /\ is_err(ret')
         /\ ret'.err \in {"ResolvedFileNotFound", "ImportBadFileUtf8"})
            => files' = files]_vars

\* the cache holds q; the first access to p has just failed on its bytes
C21_Witness ==
    \E p \in Paths : \E q \in Paths \ {p} :
        /\ LastIs("import_resolved_str", p)
        /\ is_err(ret) /\ ret.err = "ImportBadFileUtf8"
        /\ loads[p] = 1
        /\ ~IsFile(p)
        /\ IsFile(q)

(***************************************************************************)
(* Breakpoints (SpecBreak).                                                *)
(***************************************************************************)
\* the step in which the body of the innermost push_val frame has returned
PushValReturns ==
    /\ stack # <<>>
    /\ Top.kind = "push_val"
    /\ stack' = Pop(stack)
    /\ steps' # steps

Covers(item, loc) == belongs_to(item, loc)
Bucket(coll, generation) ==
    IF generation \in DOMAIN coll THEN coll[generation].vals ELSE <<>>

\* C11: whatever breakpoints are set, push_val hands on the result of its body
\* exactly as it does with no breakpoint (an error with this frame's trace
\* element pushed, a value as it is), gives back one level of stack_depth and
\* advances stack_generation by one.
C11_BreakpointsOnlyRecord ==
    [][PushValReturns =>
        /\ ret' = push_trace(last'.inner, Top.loc, Top.desc)
        /\ stack_depth' = stack_depth - 1
        /\ stack_generation' = stack_generation + 1]_vars

C11_Witness ==
    /\ last.op = "push_val"
    /\ is_err(last.inner)
    /\ is_err(ret) /\ ret.err = last.inner.err
    /\ \E item \in breakpoints :
            Bucket(collected[item], stack_generation) = <<last.inner>>

\* C12 as stated: the depth tag of every bucket is the stack depth at which the
\* results it holds were recorded.
C12_DepthTagIsRecordingDepth ==
    \A item \in breakpoints : \A generation \in DOMAIN collected[item] :
        LET bucket == collected[item][generation]
        IN  \A i \in 1..Len(bucket.at) : bucket.at[i] = bucket.depth

\* C18: when the body of a push_val frame returns, every breakpoint that covers
\* the frame's location gets that result appended to its bucket of the new
\* stack_generation and nothing else of it changes, every other breakpoint is
\* left as it was; no other step changes a breakpoint's collection.
C18_CoveredCompletionRecorded ==
    [][IF PushValReturns
       THEN \A item \in breakpoints :
                IF Covers(item, unwrap(Top.loc))
                THEN /\ DOMAIN collected'[item] =
                            DOMAIN collected[item] \cup {stack_generation'}
                     /\ Bucket(collected'[item], stack_generation') =
                            Append(Bucket(collected[item], stack_generation'),
                                   last'.inner)
                     /\ \A generation \in DOMAIN collected[item] \ {stack_generation'} :
                            collected'[item][generation] = collected[item][generation]
                ELSE collected'[item] = collected[item]
       ELSE collected' = collected]_vars

C18_Witness ==
    /\ last.op = "push_val"
    /\ is_err(last.inner)
    /\ \E covering \in breakpoints, other \in breakpoints :
        /\ Bucket(collected[covering], stack_generation) = <<last.inner>>
        /\ DOMAIN collected[other] = {}

\* the step in which push, push_val or push_description is called with
\* stack_depth above max_stack
FrameCalledAtOverflow ==
    /\ steps' # steps
    /\ last'.op \in {"push", "push_val", "push_description"}
    /\ Len(stack') >= Len(stack)
    /\ stack_depth > max_stack

\* C22: a frame that is called with stack_depth above max_stack opens no call
\* (its body does not run), changes neither stack_depth nor stack_generation
\* nor any breakpoint's collection, and returns StackOverflow with an empty
\* trace.
C22_RejectedFrameHasNoEffect ==
    [][FrameCalledAtOverflow =>
        /\ stack' = stack
        /\ UNCHANGED <<stack_depth, stack_generation, collected>>
        /\ is_err(ret') /\ ret'.err = "StackOverflow"
        /\ ret'.trace = <<>>]_vars

\* a push_val at a covered location has just been rejected
C22_Witness ==
    /\ last.op = "push_val"
    /\ is_err(ret) /\ ret.err = "StackOverflow" /\ ret.trace = <<>>
    /\ stack # <<>>
    /\ stack_depth = Len(stack)
    /\ breakpoints = ExprLocs
    /\ \A item \in breakpoints : DOMAIN collected[item] = {}

\* C23: every bucket of every breakpoint holds exactly one result.
C23_OneResultPerBucket ==
    \A item \in breakpoints : \A generation \in DOMAIN collected[item] :
        Len(collected[item][generation].vals) = 1

\* two completions were recorded by one breakpoint, the later one above depth 0
C23_Witness ==
    \E item \in breakpoints :
        /\ Cardinality(DOMAIN collected[item]) = 2
        /\ \E generation \in DOMAIN collected[item] :
                collected[item][generation].at = <<1>>

(***************************************************************************)
(* Top-level arguments and the settings cell (SpecTla).                    *)
(***************************************************************************)
\* the step in which with_tla is called with the value val
WithTlaCalled(val) ==
    /\ steps' # steps
    /\ last'.op = "with_tla"
    /\ last'.inner = OkVal(val)
    /\ Len(stack') >= Len(stack)

\* the step in which the function called by with_tla has returned
WithTlaReturns ==
    /\ steps' # steps
    /\ stack # <<>>
    /\ Top.kind = "with_tla"
    /\ stack' = Pop(stack)

\* with_tla hands a value that is no function back as it is
PassedThrough(val) ==
    /\ ret' = OkVal(val)
    /\ UNCHANGED <<stack, stack_depth, stack_generation, tla_calls, settings_borrows>>

\* with_tla calls the function once, with the registered TLAs, in one frame
CalledOnce(val) ==
    /\ stack' = Append(stack, Frame("with_tla", "-", None, "during TLA call"))
    /\ stack_depth' = stack_depth + 1
    /\ tla_calls' = Append(tla_calls,
                           [func |-> val, location |-> None, args |-> tla_vars])

\* C13 as stated: with_tla returns a value that is no function unchanged,
\* without a frame and without a call; a function it calls exactly once with
\* all registered TLAs as named arguments, inside one description frame
\* ('during TLA call'), at a call site with no source location.
C13_WithTlaAlwaysCalls ==
    [][\A val \in Vals \cup Funcs :
        WithTlaCalled(val) =>
            IF is_func(val) THEN CalledOnce(val) ELSE PassedThrough(val)]_vars

\* C13 amended: as stated, except that a function is not called when
\* stack_depth already exceeds max_stack: then with_tla fails with
\* StackOverflow and opens no frame.  The frame of the call is the only place
\* where a call is made, and it closes as a description frame does.
C13_WithTlaCallsUnlessOverflow ==
    [][/\ \A val \in Vals \cup Funcs :
            WithTlaCalled(val) =>
                IF ~is_func(val) THEN PassedThrough(val)
                ELSE IF overflows(stack_depth, max_stack)
                THEN /\ is_err(ret') /\ ret'.err = "StackOverflow"
                     /\ UNCHANGED <<stack, stack_depth, stack_generation, tla_calls>>
                ELSE CalledOnce(val)
       /\ (\A val \in Funcs : ~WithTlaCalled(val)) => tla_calls' = tla_calls
       /\ WithTlaReturns =>
            /\ ret' = push_trace(last'.inner, None, "during TLA call")
            /\ stack_depth' = stack_depth - 1]_vars

\* a function was called with a registered TLA and its error came back
\* through the frame of the call
C13_Witness ==
    /\ last.op = "with_tla"
    /\ is_err(last.inner)
    /\ Len(tla_calls) = 1
    /\ tla_calls[1].args # <<>>
    /\ tla_calls[1].args = tla_vars
    /\ is_err(ret)
    /\ ret.trace = <<StackTraceElement(None, "during TLA call")>>

\* the step in which the evaluation started by evaluate_snippet has returned
SnippetReturns ==
    /\ steps' # steps
    /\ stack # <<>>
    /\ Top.kind = "evaluate_snippet"
    /\ stack' = Pop(stack)

\* C14: evaluate_snippet returns what the evaluation of the snippet returned,
\* a function value included, and neither of its steps makes a TLA call,
\* opens a frame of one or reads or changes the registered TLAs.
C14_SnippetWithoutTla ==
    [][/\ SnippetReturns =>
            /\ ret' = last'.inner
            /\ UNCHANGED <<stack_depth, stack_generation, tla_calls, tla_vars,
                           settings_borrows>>
       /\ (steps' # steps /\ last'.op = "evaluate_snippet") =>
            /\ tla_calls' = tla_calls
            /\ \A i \in 1..Len(stack') : i > Len(stack) => stack'[i].kind # "with_tla"]_vars

C14_Witness ==
    /\ last.op = "evaluate_snippet"
    /\ \E func \in Funcs : ret = OkVal(func) /\ last.inner = OkVal(func)
    /\ tla_vars # <<>>
    /\ tla_calls = <<>>

\* C17 as stated: between any two steps of a session no Ref of the settings
\* is alive, so that settings_mut never panics.
C17_SettingsNeverHeld ==
    settings_borrows = 0 /\ ~panicked

\* the step made by add_tla, add_tla_str or add_tla_code
AddTlaCalled ==
    /\ steps' # steps
    /\ last'.op \in {"add_tla", "add_tla_str", "add_tla_code"}

\* the kind of argument each call registers
TlaKind(op) ==
    CASE op = "add_tla" -> "Val" [] op = "add_tla_str" -> "String" [] op = "add_tla_code" -> "Code"

\* C24: a call of add_tla, add_tla_str or add_tla_code that succeeds makes
\* tla_vars map its name to its argument, of the call's kind, and leaves every
\* other name as it was; an add_tla_code whose code does not parse returns
\* ImportSyntaxError and leaves tla_vars as it was; no other step changes it.
C24_TlaVarsLatestWins ==
    [][IF ~AddTlaCalled \/ panicked' THEN tla_vars' = tla_vars
       ELSE IF last'.inner = NoResult
       THEN /\ last'.op = "add_tla_code"
            /\ is_err(ret') /\ ret'.err = "ImportSyntaxError"
            /\ tla_vars' = tla_vars
       ELSE /\ DOMAIN tla_vars' = DOMAIN tla_vars \cup {last'.path}
            /\ tla_vars'[last'.path] = last'.inner
            /\ last'.inner.kind = TlaKind(last'.op)
            /\ \A name \in DOMAIN tla_vars \ {last'.path} :
                    tla_vars'[name] = tla_vars[name]]_vars

\* both names are registered, x with a string; an add_tla_code for x has just
\* failed on its code
C24_Witness ==
    /\ last.op = "add_tla_code" /\ last.path = "x"
    /\ is_err(ret) /\ ret.err = "ImportSyntaxError"
    /\ DOMAIN tla_vars = {"x", "y"}
    /\ tla_vars["x"].kind = "String"

(***************************************************************************)
(* The native callback (SpecNative).                                       *)
(***************************************************************************)
Called == native_out # None

\* C15 as stated: every call of a native callback ends in a result of the
\* evaluator, whatever the callback stored in the flag and returned: the
\* returned value when the flag is still set, RuntimeError of the returned
\* message when the callback cleared it, and never an abort.
C15_NativeEndsInResult ==
    Called =>
        LET result == unwrap(native_out).result
            reply == native_reply
        IN  /\ result.kind \in {"ok", "err"}
            /\ (reply.success = 1 /\ is_some(reply.payload))
                    => result = OkVal(unwrap(reply.payload))
            /\ (reply.success = 0 /\ is_some(reply.payload))
                    => result = RuntimeError(unwrap(reply.payload).val)

\* C16 as stated: the callback finds the i-th argument at argv[i] for every i
\* below the argument count, and null at argv[count].
C16_ArgvIsArgsThenNull ==
    Called =>
        LET seen == unwrap(native_out).argv
        IN  /\ Len(seen) = Len(native_args) + 1
            /\ \A i \in 1..Len(native_args) : seen[i] = PtrTo(native_args[i])
            /\ seen[Len(native_args) + 1] = NullPtr

(***************************************************************************)
(* Functions of their arguments alone (SpecApplied).                       *)
(***************************************************************************)
Applied(fn) == fn_input.fn = fn /\ is_some(fn_output)

\* the parameters that must be bound in a call, in the order of the list
Required(func) ==
    IF func.variant = "Normal"
    THEN SelectSeq(func.params, LAMBDA p : p[2] = None)
    ELSE SelectSeq(func.params, LAMBDA p : p.has_default = FALSE)

\* C25: params_len returns 1 for the identity function and, for a function
\* defined in jsonnet or a builtin, the number of its parameters that have no
\* default, whatever their positions among the others.
C25_ParamsLenCountsRequired ==
    Applied("params_len") =>
        LET func == fn_input.arg
        IN  unwrap(fn_output) = IF func.variant = "Id" THEN 1
                                ELSE Len(Required(func))

\* a required parameter behind one with a default has been counted
C25_Witness ==
    /\ Applied("params_len")
    /\ fn_input.arg.variant = "Normal"
    /\ Len(fn_input.arg.params) = 2
    /\ is_some(fn_input.arg.params[1][2])
    /\ is_none(fn_input.arg.params[2][2])
    /\ unwrap(fn_output) = 1

\* the index of the first null pointer of the array
FirstNull(raw) ==
    CHOOSE i \in DOMAIN raw : is_none(raw[i]) /\ \A j \in 1..(i - 1) : is_some(raw[j])

\* the strings in front of it
NamesFound(raw) == [i \in 1..(FirstNull(raw) - 1) |-> from_utf8(unwrap(raw[i]))]

\* C26: for an array whose strings in front of the first null pointer are
\* names (UTF-8), jsonnet_native_callback registers a callable with one
\* parameter per such string, in the order of the array, each with its name
\* and without a default; nothing behind the null pointer is read.
C26_ParamsAreNamesBeforeNull ==
    Applied("jsonnet_native_callback") =>
        LET names == NamesFound(fn_input.arg)
            registered == unwrap(fn_output)
        IN  (\A i \in DOMAIN names : is_some(names[i])) =>
                /\ registered.kind = "native"
                /\ Len(registered.params) = Len(names)
                /\ \A i \in DOMAIN names :
                        /\ registered.params[i][1] = unwrap(names[i])
                        /\ registered.params[i][2] = None

\* two names in front of the null pointer, the first of two bytes
C26_Witness ==
    /\ Applied("jsonnet_native_callback")
    /\ fn_input.arg = <<Some(<<195, 169>>), Some(<<112>>), None>>
    /\ unwrap(fn_output).params = <<Param(<<233>>, None), Param(<<112>>, None)>>

\* the elements of a non-empty list, each but the last followed by sep
RECURSIVE Joined(_, _)
Joined(list, sep) ==
    IF Len(list) = 1 THEN list[1]
    ELSE list[1] \o sep \o Joined(Tail(list), sep)

\* C27: format_found returns the empty string for an empty list; otherwise
\* "\nThere is <what>" + plural + " with similar name" + plural + " present: "
\* followed by the suggestions in list order joined by ", ", where plural is
\* "s" when the list has more than one element and empty otherwise.
C27_FormatFoundText ==
    Applied("format_found") =>
        LET list == fn_input.arg.list
            what == fn_input.arg.what
            plural == IF Len(list) > 1 THEN "s" ELSE ""
        IN  unwrap(fn_output) =
                IF Len(list) = 0 THEN ""
                ELSE "\nThere is " \o what \o plural \o " with similar name" \o plural
                        \o " present: " \o Joined(list, ", ")

C27_Witness ==
    /\ Applied("format_found")
    /\ fn_input.arg.list = <<"foo", "bar">>
    /\ unwrap(fn_output) = "\nThere is fields with similar names present: foo, bar"
====
